---- MODULE Spec2Model ----
(***************************************************************************)
(* Retain-height coordinator of state/pruner.go: the three watermark       *)
(* setters and FindMinRetainHeight, over the watermark store and the block *)
(* ledger.  Every handler is translated as a sequence of steps, one per    *)
(* call it makes on the ledger or on the store; Spec runs each handler to  *)
(* completion in one action (calls made one after the other), SpecConc     *)
(* lets the steps of several callers interleave (the Pruner holds no       *)
(* mutex).  SpecSched and SpecSchedConc add pruningRoutine and pruneBlocks,*)
(* the routine taking one step per call it makes.                          *)
(***************************************************************************)
EXTENDS Integers, FiniteSets, Sequences, TLC

\* Highest block height the ledger reaches.
MaxHeight == 3
\* Number of caller goroutines that invoke the handlers concurrently.
NumCallers == 2
\* Height of the ledger while the pruning routine runs.
SchedHeight == 2

\* Value of a key that was never saved in the store.
NoValue == -1

Heights == 1..MaxHeight
\* Heights a caller may pass: negative, zero, in range, above the ledger.
HeightArgs == (0 - 1)..(MaxHeight + 1)
Callers == 1..NumCallers

\* Error values.
Nil == "nil"
ErrInvalidHeightValue == "ErrInvalidHeightValue"
ErrKeyNotFound == "ErrKeyNotFound"
ErrLowerThanRequested == "cannot set a height lower than previously requested"
ErrStoreIO == "ErrStoreIO"

\* Keys of the watermark store.
AppRetainHeightKey == "AppRetainHeightKey"
CompanionBlockRetainHeightKey == "DCBlockRetainHeightKey"
ABCIResultsRetainHeightKey == "ABCIResRetainHeightKey"
Keys == {AppRetainHeightKey, CompanionBlockRetainHeightKey, ABCIResultsRetainHeightKey}

\* A store I/O failure a call may meet: no failure, the read of one key, or
\* the save.
NoFault == "none"
SaveFault == "save"

VARIABLES
    store,      \* watermark store: key -> saved height, or NoValue
    ledger,     \* block ledger: [base, height]
    frames,     \* caller -> the frame of the call it is executing (SpecConc)
    last,       \* the call that has just returned, with the state it ran in
    accepted,   \* highest height a SetApplicationRetainHeight call returned nil for
    sched,      \* the pruning routine: its position, its two cursors, its locals
    quit,       \* the Quit channel is closed
    hist        \* what the pruning routine has commanded so far

vars == <<store, ledger, frames, last, accepted, sched, quit, hist>>

----------------------------------------------------------------------------
\* The watermark store (state.Store), at its interface.

\* A read: the saved height, ErrKeyNotFound with value 0 when the key was
\* never saved, or an I/O error with value 0.
Get(s, key, fault) ==
    IF fault = key THEN [val |-> 0, err |-> ErrStoreIO]
    ELSE IF s[key] = NoValue THEN [val |-> 0, err |-> ErrKeyNotFound]
    ELSE [val |-> s[key], err |-> Nil]

GetApplicationRetainHeight(s, fault) == Get(s, AppRetainHeightKey, fault)
GetCompanionBlockRetainHeight(s, fault) == Get(s, CompanionBlockRetainHeightKey, fault)
GetABCIResRetainHeight(s, fault) == Get(s, ABCIResultsRetainHeightKey, fault)

\* A save: the key holds the height afterwards, or an I/O error and no change.
Save(s, key, height, fault) ==
    IF fault = SaveFault THEN [s |-> s, err |-> ErrStoreIO]
    ELSE [s |-> [s EXCEPT ![key] = height], err |-> Nil]

SaveApplicationRetainHeight(s, height, fault) == Save(s, AppRetainHeightKey, height, fault)
SaveCompanionBlockRetainHeight(s, height, fault) == Save(s, CompanionBlockRetainHeightKey, height, fault)
SaveABCIResRetainHeight(s, height, fault) == Save(s, ABCIResultsRetainHeightKey, height, fault)

----------------------------------------------------------------------------
\* Call frames.  pc names the next ledger or store call of the handler;
\* current and notSet are the handler's locals that live across two calls;
\* reads and writes count the store calls made so far.

NoFrame == [op |-> "idle", height |-> 0, fault |-> NoFault, pc |-> "done",
            current |-> 0, notSet |-> FALSE, err |-> Nil, ret |-> 0,
            reads |-> 0, writes |-> 0]

FirstPc(op) ==
    CASE op = "SetApplicationRetainHeight" -> "Base"
      [] op = "SetCompanionRetainHeight" -> "Base"
      [] op = "SetABCIResRetainHeight" -> "Height"
      [] op = "FindMinRetainHeight" -> "Get1"

NewFrame(op, height, fault) ==
    [NoFrame EXCEPT !.op = op, !.height = height, !.fault = fault, !.pc = FirstPc(op)]

\* The handler returns err (and value ret).
Return(f, err, ret) == [f EXCEPT !.pc = "done", !.err = err, !.ret = ret]
Goto(f, pc) == [f EXCEPT !.pc = pc]
DidRead(f) == [f EXCEPT !.reads = @ + 1]
DidWrite(f) == [f EXCEPT !.writes = @ + 1]

----------------------------------------------------------------------------
\* SetApplicationRetainHeight (pruner.go:87-113).

\* height <= 0 || height < p.bs.Base()
AppHeightBelowRange(height, base) == height <= 0 \/ height < base

\* height > p.bs.Height()
AppHeightAboveRange(height, top) == height > top

\* Variant: the companion's watermark is not consulted.
AppRetainHeightRegression_OwnOnly(currentAppRetainHeight, noCompanionRetainHeight, currentCompanionRetainHeight, height) ==
    currentAppRetainHeight > height

\* currentAppRetainHeight > height ||
\*     (!noCompanionRetainHeight && currentCompanionRetainHeight > height)
AppRetainHeightRegression(currentAppRetainHeight, noCompanionRetainHeight, currentCompanionRetainHeight, height) ==
    \/ currentAppRetainHeight > height
    \/ (~noCompanionRetainHeight /\ currentCompanionRetainHeight > height)

\* One step of the handler: f.current is currentAppRetainHeight.
SetApplicationRetainHeight(f, s, l) ==
    CASE f.pc = "Base" ->
           IF AppHeightBelowRange(f.height, l.base)
           THEN [f |-> Return(f, ErrInvalidHeightValue, 0), s |-> s]
           ELSE [f |-> Goto(f, "Height"), s |-> s]
      [] f.pc = "Height" ->
           IF AppHeightAboveRange(f.height, l.height)
           THEN [f |-> Return(f, ErrInvalidHeightValue, 0), s |-> s]
           ELSE [f |-> Goto(f, "Get1"), s |-> s]
      [] f.pc = "Get1" ->
           LET r == GetApplicationRetainHeight(s, f.fault)
               g == DidRead(f)
           IN  IF r.err = Nil
               THEN [f |-> Goto([g EXCEPT !.current = r.val], "Get2"), s |-> s]
               ELSE IF r.err = ErrKeyNotFound
               THEN [f |-> Goto([g EXCEPT !.current = f.height], "Get2"), s |-> s]
               ELSE [f |-> Return(g, r.err, 0), s |-> s]
      [] f.pc = "Get2" ->
           LET r == GetCompanionBlockRetainHeight(s, f.fault)
               g == DidRead(f)
               noCompanionRetainHeight == r.err = ErrKeyNotFound
           IN  IF r.err # Nil /\ r.err # ErrKeyNotFound
               THEN [f |-> Return(g, r.err, 0), s |-> s]
               ELSE IF AppRetainHeightRegression(f.current, noCompanionRetainHeight,
                                                 r.val, f.height)
               THEN [f |-> Return(g, ErrLowerThanRequested, 0), s |-> s]
               ELSE [f |-> Goto(g, "Save"), s |-> s]
      [] f.pc = "Save" ->
           LET r == SaveApplicationRetainHeight(s, f.height, f.fault)
           IN  [f |-> Return(DidWrite(f), r.err, 0), s |-> r.s]

----------------------------------------------------------------------------
\* SetCompanionRetainHeight (pruner.go:123-149).

\* Variant: the ledger's base is not consulted.
CompanionHeightBelowRange_NoBase(height, base) == height <= 0

\* height <= 0 || height < p.bs.Base()
CompanionHeightBelowRange(height, base) == height <= 0 \/ height < base

\* height > p.bs.Height()
CompanionHeightAboveRange(height, top) == height > top

\* Variant: the comparison with the application's watermark is reversed.
CompanionRetainHeightRegression_Reversed(currentCompanionRetainHeight, noAppRetainHeight, currentAppRetainHeight, height) ==
    \/ currentCompanionRetainHeight > height
    \/ (~noAppRetainHeight /\ currentAppRetainHeight < height)

\* Variant: the companion's new height is compared with its own watermark
\* only.
CompanionRetainHeightRegression_OwnOnly(currentCompanionRetainHeight, noAppRetainHeight, currentAppRetainHeight, height) ==
    currentCompanionRetainHeight > height

\* currentCompanionRetainHeight > height ||
\*     (!noAppRetainHeight && currentAppRetainHeight > height)
CompanionRetainHeightRegression(currentCompanionRetainHeight, noAppRetainHeight, currentAppRetainHeight, height) ==
    \/ currentCompanionRetainHeight > height
    \/ (~noAppRetainHeight /\ currentAppRetainHeight > height)

\* One step of the handler: f.current is currentCompanionRetainHeight.
SetCompanionRetainHeight(f, s, l) ==
    CASE f.pc = "Base" ->
           IF CompanionHeightBelowRange(f.height, l.base)
           THEN [f |-> Return(f, ErrInvalidHeightValue, 0), s |-> s]
           ELSE [f |-> Goto(f, "Height"), s |-> s]
      [] f.pc = "Height" ->
           IF CompanionHeightAboveRange(f.height, l.height)
           THEN [f |-> Return(f, ErrInvalidHeightValue, 0), s |-> s]
           ELSE [f |-> Goto(f, "Get1"), s |-> s]
      [] f.pc = "Get1" ->
           LET r == GetCompanionBlockRetainHeight(s, f.fault)
               g == DidRead(f)
           IN  IF r.err = Nil
               THEN [f |-> Goto([g EXCEPT !.current = r.val], "Get2"), s |-> s]
               ELSE IF r.err = ErrKeyNotFound
               THEN [f |-> Goto([g EXCEPT !.current = f.height], "Get2"), s |-> s]
               ELSE [f |-> Return(g, r.err, 0), s |-> s]
      [] f.pc = "Get2" ->
           LET r == GetApplicationRetainHeight(s, f.fault)
               g == DidRead(f)
               noAppRetainHeight == r.err = ErrKeyNotFound
           IN  IF r.err # Nil /\ r.err # ErrKeyNotFound
               THEN [f |-> Return(g, r.err, 0), s |-> s]
               ELSE IF CompanionRetainHeightRegression(f.current, noAppRetainHeight,
                                                       r.val, f.height)
               THEN [f |-> Return(g, ErrLowerThanRequested, 0), s |-> s]
               ELSE [f |-> Goto(g, "Save"), s |-> s]
      [] f.pc = "Save" ->
           LET r == SaveCompanionBlockRetainHeight(s, f.height, f.fault)
           IN  [f |-> Return(DidWrite(f), r.err, 0), s |-> r.s]

----------------------------------------------------------------------------
\* SetABCIResRetainHeight (pruner.go:155-172).

\* Variant: height 0 passes the check.
ABCIResHeightInvalid_ZeroPasses(height, top) == height < 0 \/ height > top

\* height <= 0 || height > p.bs.Height()
ABCIResHeightInvalid(height, top) == height <= 0 \/ height > top

\* Variant: an equal height is rejected too.
ABCIResRetainHeightRegression_Strict(currentRetainHeight, height) ==
    currentRetainHeight >= height

\* currentRetainHeight > height
ABCIResRetainHeightRegression(currentRetainHeight, height) ==
    currentRetainHeight > height

\* One step of the handler.  Both saves (lines 162 and 170) are the step "Save".
SetABCIResRetainHeight(f, s, l) ==
    CASE f.pc = "Height" ->
           IF ABCIResHeightInvalid(f.height, l.height)
           THEN [f |-> Return(f, ErrInvalidHeightValue, 0), s |-> s]
           ELSE [f |-> Goto(f, "Get1"), s |-> s]
      [] f.pc = "Get1" ->
           LET r == GetABCIResRetainHeight(s, f.fault)
               g == DidRead(f)
           IN  IF r.err = ErrKeyNotFound
               THEN [f |-> Goto(g, "Save"), s |-> s]
               ELSE IF r.err # Nil
               THEN [f |-> Return(g, r.err, 0), s |-> s]
               ELSE IF ABCIResRetainHeightRegression(r.val, f.height)
               THEN [f |-> Return(g, ErrLowerThanRequested, 0), s |-> s]
               ELSE [f |-> Goto(g, "Save"), s |-> s]
      [] f.pc = "Save" ->
           LET r == SaveABCIResRetainHeight(s, f.height, f.fault)
           IN  [f |-> Return(DidWrite(f), r.err, 0), s |-> r.s]

----------------------------------------------------------------------------
\* FindMinRetainHeight (pruner.go:209-235).

\* Variant: a failed companion read is handled like a missing key.
MinRetainHeight_ErrAsNotFound(appRetainHeight, noAppRetainHeightSet, dcRetainHeight, err) ==
    IF err # Nil /\ ~noAppRetainHeightSet THEN appRetainHeight
    ELSE IF appRetainHeight < dcRetainHeight THEN appRetainHeight
    ELSE dcRetainHeight

\* Lines 219-234, after the companion read returned (dcRetainHeight, err):
\* f.current is appRetainHeight, f.notSet is noAppRetainHeightSet.
MinRetainHeight(appRetainHeight, noAppRetainHeightSet, dcRetainHeight, err) ==
    IF err # Nil /\ err # ErrKeyNotFound THEN 0
    ELSE IF err = ErrKeyNotFound /\ ~noAppRetainHeightSet THEN appRetainHeight
    ELSE IF appRetainHeight < dcRetainHeight THEN appRetainHeight
    ELSE dcRetainHeight

\* Variant: when only the application's watermark exists, it is saved as the
\* companion's too.
FindMinRetainHeight_SavesDefault(f, s, l) ==
    CASE f.pc = "Get1" ->
           LET r == GetApplicationRetainHeight(s, f.fault)
               g == DidRead(f)
           IN  IF r.err = Nil
               THEN [f |-> Goto([g EXCEPT !.current = r.val], "Get2"), s |-> s]
               ELSE IF r.err = ErrKeyNotFound
               THEN [f |-> Goto([g EXCEPT !.current = r.val, !.notSet = TRUE], "Get2"),
                     s |-> s]
               ELSE [f |-> Return(g, Nil, 0), s |-> s]
      [] f.pc = "Get2" ->
           LET r == GetCompanionBlockRetainHeight(s, f.fault)
           IN  [f |-> Return(DidRead(f), Nil,
                             MinRetainHeight(f.current, f.notSet, r.val, r.err)),
                s |-> IF r.err = ErrKeyNotFound /\ ~f.notSet
                      THEN SaveCompanionBlockRetainHeight(s, f.current, NoFault).s
                      ELSE s]

\* One step of the function.
FindMinRetainHeight(f, s, l) ==
    CASE f.pc = "Get1" ->
           LET r == GetApplicationRetainHeight(s, f.fault)
               g == DidRead(f)
           IN  IF r.err = Nil
               THEN [f |-> Goto([g EXCEPT !.current = r.val], "Get2"), s |-> s]
               ELSE IF r.err = ErrKeyNotFound
               THEN [f |-> Goto([g EXCEPT !.current = r.val, !.notSet = TRUE], "Get2"),
                     s |-> s]
               ELSE [f |-> Return(g, Nil, 0), s |-> s]
      [] f.pc = "Get2" ->
           LET r == GetCompanionBlockRetainHeight(s, f.fault)
           IN  [f |-> Return(DidRead(f), Nil,
                             MinRetainHeight(f.current, f.notSet, r.val, r.err)),
                s |-> s]

----------------------------------------------------------------------------
\* Running the handlers.

Ops == {"SetApplicationRetainHeight", "SetCompanionRetainHeight",
        "SetABCIResRetainHeight", "FindMinRetainHeight"}

\* The store failures a call of op can meet.
Faults(op) ==
    CASE op = "SetApplicationRetainHeight" ->
           {NoFault, AppRetainHeightKey, CompanionBlockRetainHeightKey, SaveFault}
      [] op = "SetCompanionRetainHeight" ->
           {NoFault, AppRetainHeightKey, CompanionBlockRetainHeightKey, SaveFault}
      [] op = "SetABCIResRetainHeight" ->
           {NoFault, ABCIResultsRetainHeightKey, SaveFault}
      [] op = "FindMinRetainHeight" ->
           {NoFault, AppRetainHeightKey, CompanionBlockRetainHeightKey}

\* The next step of the call in frame f.
Step(f, s, l) ==
    CASE f.op = "SetApplicationRetainHeight" -> SetApplicationRetainHeight(f, s, l)
      [] f.op = "SetCompanionRetainHeight" -> SetCompanionRetainHeight(f, s, l)
      [] f.op = "SetABCIResRetainHeight" -> SetABCIResRetainHeight(f, s, l)
      [] f.op = "FindMinRetainHeight" -> FindMinRetainHeight(f, s, l)

\* The call in frame f run to its return with no other caller in between.
RECURSIVE RunFrom(_, _)
RunFrom(x, l) ==
    IF x.f.pc = "done" THEN x ELSE RunFrom(Step(x.f, x.s, l), l)

Run(f, s, l) == RunFrom([f |-> f, s |-> s], l)

\* What is remembered of a call that returned: its arguments, its results,
\* and the store and ledger it started in.
Outcome(f, s, l) ==
    [op |-> f.op, height |-> f.height, fault |-> f.fault, err |-> f.err,
     ret |-> f.ret, reads |-> f.reads, writes |-> f.writes, pre |-> s, ledger |-> l]

Accept(f) ==
    IF f.op = "SetApplicationRetainHeight" /\ f.err = Nil /\ f.height > accepted
    THEN f.height ELSE accepted

----------------------------------------------------------------------------
\* pruneBlocks (pruner.go:237-262).  A frame of pruneBlocks: pc names its
\* next call on the ledger or on the state store, calls lists the calls made
\* so far, loadErr, blocksErr and statesErr are what Load, PruneBlocks and
\* PruneStates returned.  Each step is given fail, whether the call it makes fails, and
\* evUp, how far above the retain height the ledger puts the evidence
\* retain height.

ErrRetainHeight == "retain height cannot be less or equal than 0"
ErrLoad == "ErrLoad"
ErrPruneBlocks == "ErrPruneBlocks"
ErrPruneStates == "ErrPruneStates"

PruneCalls == {"Load", "PruneBlocks", "PruneStates"}

NoPrune == [height |-> 0, pc |-> "idle", base |-> 0, pruned |-> 0, evRetainHeight |-> 0,
            loadErr |-> Nil, blocksErr |-> Nil, statesErr |-> Nil, err |-> Nil,
            calls |-> <<>>]

NewPrune(height) == [NoPrune EXCEPT !.height = height, !.pc = "Base"]

\* One call made on the ledger or on the state store, with its arguments.
CallOf(name, a, b, c) == [name |-> name, a |-> a, b |-> b, c |-> c]

\* Store.Load: the state, or an error.
Load(fail) == IF fail THEN ErrLoad ELSE Nil

\* BlockStore.PruneBlocks(height, state): on success the ledger's base is
\* height; it fails beyond the ledger's height, below its base, or on I/O.
LedgerPruneBlocks(l, height, fail, evUp) ==
    IF fail \/ height > l.height \/ height < l.base
    THEN [l |-> l, pruned |-> 0, evRetainHeight |-> 0, err |-> ErrPruneBlocks]
    ELSE [l |-> [l EXCEPT !.base = height], pruned |-> height - l.base,
          evRetainHeight |-> height + evUp, err |-> Nil]

\* Store.PruneStates(from, to, evidenceThresholdHeight).
PruneStates(fail) == IF fail THEN ErrPruneStates ELSE Nil

\* Variant: only a negative height is refused.
InvalidRetainHeight_NegativeOnly(height) == height < 0

\* height <= 0
InvalidRetainHeight(height) == height <= 0

\* Variant: the error of Load is not looked at.
LoadFailed_Ignored(err) == FALSE

\* state, err = p.stateStore.Load(); if err != nil
LoadFailed(err) == err # Nil

\* Variant: the base is read again from the ledger when PruneStates is called.
PruneStatesArgs_CurrentBase(base, height, evRetainHeight, l) ==
    CallOf("PruneStates", l.base, height, evRetainHeight)

\* p.stateStore.PruneStates(base, height, evRetainHeight): l is the ledger at
\* the time of this call, base the local read at line 242.
PruneStatesArgs(base, height, evRetainHeight, l) ==
    CallOf("PruneStates", base, height, evRetainHeight)

\* The error pruneBlocks returns after both prune steps: err was assigned
\* by PruneBlocks (line 251) and is assigned again by PruneStates (line 257).
PruneBlocksError(blocksErr, statesErr) == statesErr

\* One step of pruneBlocks.
pruneBlocks(p, l, fail, evUp) ==
    CASE p.pc = "Base" ->
           IF InvalidRetainHeight(p.height)
           THEN [p |-> [p EXCEPT !.pc = "done", !.err = ErrRetainHeight], l |-> l]
           ELSE [p |-> [p EXCEPT !.pc = "Load", !.base = l.base,
                                 !.calls = Append(@, CallOf("Base", 0, 0, 0))],
                 l |-> l]
      [] p.pc = "Load" ->
           LET err == Load(fail)
               q == [p EXCEPT !.loadErr = err, !.calls = Append(@, CallOf("Load", 0, 0, 0))]
           IN  IF LoadFailed(err)
               THEN [p |-> [q EXCEPT !.pc = "done", !.err = err], l |-> l]
               ELSE [p |-> [q EXCEPT !.pc = "PruneBlocks"], l |-> l]
      [] p.pc = "PruneBlocks" ->
           LET r == LedgerPruneBlocks(l, p.height, fail, evUp)
           IN  [p |-> [p EXCEPT !.pc = "PruneStates", !.pruned = r.pruned,
                                !.evRetainHeight = r.evRetainHeight,
                                !.blocksErr = r.err, !.err = r.err,
                                !.calls = Append(@, CallOf("PruneBlocks", p.height, 0, 0))],
                l |-> r.l]
      [] p.pc = "PruneStates" ->
           LET err == PruneStates(fail)
           IN  [p |-> [p EXCEPT !.pc = "done", !.statesErr = err,
                                !.err = PruneBlocksError(p.blocksErr, err),
                                !.calls = Append(@, PruneStatesArgs(p.base, p.height,
                                                                    p.evRetainHeight, l))],
                l |-> l]

----------------------------------------------------------------------------
\* pruningRoutine (pruner.go:174-203): its position, cursors and locals.

NoSched == [pc |-> "Select", lastHeightPruned |-> 0, lastABCIResPrunedHeight |-> 0,
            retainHeight |-> 0, ABCIResRetainHeight |-> 0,
            find |-> NoFrame, pb |-> NoPrune]

\* Variant: the routine prunes only when the retain height has risen.
ShouldPrune_OnlyHigher(retainHeight, lastHeightPruned) == retainHeight > lastHeightPruned

\* retainHeight != lastHeightPruned
ShouldPrune(retainHeight, lastHeightPruned) == retainHeight # lastHeightPruned

\* lastHeightPruned = retainHeight, whatever pruneBlocks returned
LastHeightPrunedAfter(retainHeight, err) == retainHeight

\* Variant: the routine returns when pruneBlocks failed.
AfterPruneBlocks_ExitOnError(err) == IF err # Nil THEN "Stopped" ELSE "GetABCI"

\* Where the loop goes after pruneBlocks returned err: on to the ABCI
\* results, the error is only logged.
AfterPruneBlocks(err) == "GetABCI"

\* lastABCIResPrunedHeight != ABCIResRetainHeight
ShouldPruneABCI(lastABCIResPrunedHeight, ABCIResRetainHeight) ==
    lastABCIResPrunedHeight # ABCIResRetainHeight

\* The cursor after PruneABCIResponses(ABCIResRetainHeight): the routine
\* never assigns it.
LastABCIResPrunedHeightAfter(lastABCIResPrunedHeight, ABCIResRetainHeight) ==
    lastABCIResPrunedHeight

\* What the routine has commanded: the highest height given to the ledger's
\* PruneBlocks; the heights given to it since the application or companion
\* watermark last changed; the heights given to PruneABCIResponses since the
\* ABCI results watermark last changed.
NoHist == [maxPruned |-> 0, commanded |-> {}, abciPruned |-> {}]

WatermarksChanged(s, t) ==
    \/ s[AppRetainHeightKey] # t[AppRetainHeightKey]
    \/ s[CompanionBlockRetainHeightKey] # t[CompanionBlockRetainHeightKey]

HistAfterStore(h, s, t) ==
    [h EXCEPT !.commanded = IF WatermarksChanged(s, t) THEN {} ELSE @,
              !.abciPruned = IF s[ABCIResultsRetainHeightKey] # t[ABCIResultsRetainHeightKey]
                             THEN {} ELSE @]

----------------------------------------------------------------------------
\* State and actions.

EmptyStore == [k \in Keys |-> NoValue]

\* The ledger is empty (base and height 0) or retains the blocks base..height.
ValidLedger(l) == (l.base = 0 /\ l.height = 0) \/ (1 <= l.base /\ l.base <= l.height)

Ledgers == {l \in [base : 0..MaxHeight, height : 0..MaxHeight] : ValidLedger(l)}

Init ==
    /\ store = EmptyStore
    /\ ledger \in Ledgers
    /\ frames = [c \in Callers |-> NoFrame]
    /\ last = Outcome(NoFrame, EmptyStore, ledger)
    /\ accepted = 0
    /\ sched = NoSched
    /\ quit = FALSE
    /\ hist = NoHist

\* The node commits a block: the ledger's height grows by one.
SaveBlock ==
    /\ ledger.height < MaxHeight
    /\ ledger' = [base |-> IF ledger.base = 0 THEN 1 ELSE ledger.base,
                  height |-> ledger.height + 1]
    /\ last' = Outcome(NoFrame, store, ledger')
    /\ UNCHANGED <<store, frames, accepted, sched, quit, hist>>

\* A whole call of op, made when no other call is in progress.
Call(op, height, fault) ==
    \E r \in {Run(NewFrame(op, height, fault), store, ledger)} :
        /\ store' = r.s
        /\ last' = Outcome(r.f, store, ledger)
        /\ accepted' = Accept(r.f)
        /\ UNCHANGED <<ledger, frames, sched, quit, hist>>

CallSetApplicationRetainHeight ==
    \E height \in HeightArgs : \E fault \in Faults("SetApplicationRetainHeight") :
        Call("SetApplicationRetainHeight", height, fault)

CallSetCompanionRetainHeight ==
    \E height \in HeightArgs : \E fault \in Faults("SetCompanionRetainHeight") :
        Call("SetCompanionRetainHeight", height, fault)

CallSetABCIResRetainHeight ==
    \E height \in HeightArgs : \E fault \in Faults("SetABCIResRetainHeight") :
        Call("SetABCIResRetainHeight", height, fault)

CallFindMinRetainHeight ==
    \E fault \in Faults("FindMinRetainHeight") :
        Call("FindMinRetainHeight", 0, fault)

Next ==
    \/ CallSetApplicationRetainHeight
    \/ CallSetCompanionRetainHeight
    \/ CallSetABCIResRetainHeight
    \/ CallFindMinRetainHeight
    \/ SaveBlock

Spec == Init /\ [][Next]_vars

----------------------------------------------------------------------------
\* Concurrent callers: the handlers take no lock, so between any two ledger
\* or store calls of one caller the others may run.

Idle(c) == frames[c].op = "idle"

\* Caller c enters a handler.  The interleavings are explored with a store
\* that does not fail.
Begin(c, op, height, fault) ==
    /\ Idle(c)
    /\ frames' = [frames EXCEPT ![c] = NewFrame(op, height, fault)]
    /\ UNCHANGED <<store, ledger, last, accepted, sched, quit, hist>>

BeginSetApplicationRetainHeight(c) ==
    \E height \in HeightArgs : Begin(c, "SetApplicationRetainHeight", height, NoFault)

BeginSetCompanionRetainHeight(c) ==
    \E height \in HeightArgs : Begin(c, "SetCompanionRetainHeight", height, NoFault)

BeginSetABCIResRetainHeight(c) ==
    \E height \in HeightArgs : Begin(c, "SetABCIResRetainHeight", height, NoFault)

\* Caller c makes the next ledger or store call of its handler; when the
\* handler returns, the caller is idle again.
Proceed(c) ==
    /\ ~Idle(c)
    /\ \E r \in {Step(frames[c], store, ledger)} :
        /\ store' = r.s
        /\ frames' = [frames EXCEPT ![c] = IF r.f.pc = "done" THEN NoFrame ELSE r.f]
        /\ accepted' = IF r.f.pc = "done" THEN Accept(r.f) ELSE accepted
        /\ hist' = HistAfterStore(hist, store, r.s)
    /\ UNCHANGED <<ledger, last, sched, quit>>

NextConc ==
    \E c \in Callers :
        \/ BeginSetApplicationRetainHeight(c)
        \/ BeginSetCompanionRetainHeight(c)
        \/ BeginSetABCIResRetainHeight(c)
        \/ Proceed(c)

\* The ledger retains the blocks 1..MaxHeight.
InitConc == Init /\ ledger = [base |-> 1, height |-> MaxHeight]

SpecConc == InitConc /\ [][NextConc]_vars

----------------------------------------------------------------------------
\* The pruning routine, one action per call it makes.  FindFaults, Fails,
\* EvUps and ABCIFaults are the failures and ledger answers a run may meet.

Max(a, b) == IF a > b THEN a ELSE b

\* select: Quit is closed and the routine returns, or the default branch
\* starts the iteration by calling FindMinRetainHeight.
SchedSelect(FindFaults) ==
    /\ sched.pc = "Select"
    /\ IF quit
       THEN sched' = [sched EXCEPT !.pc = "Stopped"]
       ELSE \E fault \in FindFaults :
                sched' = [sched EXCEPT !.pc = "Find",
                                       !.find = NewFrame("FindMinRetainHeight", 0, fault)]
    /\ UNCHANGED <<store, ledger, frames, last, accepted, quit, hist>>

\* One read of FindMinRetainHeight; when it has returned, the comparison
\* with lastHeightPruned and, if they differ, the call of pruneBlocks.
SchedFind ==
    /\ sched.pc = "Find"
    /\ \E r \in {Step(sched.find, store, ledger)} :
        /\ store' = r.s
        /\ IF r.f.pc # "done"
           THEN sched' = [sched EXCEPT !.find = r.f]
           ELSE IF ShouldPrune(r.f.ret, sched.lastHeightPruned)
           THEN sched' = [sched EXCEPT !.pc = "Prune", !.find = NoFrame,
                                       !.retainHeight = r.f.ret,
                                       !.pb = NewPrune(r.f.ret)]
           ELSE sched' = [sched EXCEPT !.pc = "GetABCI", !.find = NoFrame,
                                       !.retainHeight = r.f.ret]
    /\ UNCHANGED <<ledger, frames, last, accepted, quit, hist>>

\* One step of pruneBlocks; when it has returned, the cursor is assigned.
SchedPrune(Fails, EvUps) ==
    /\ sched.pc = "Prune"
    /\ \E fail \in (IF sched.pb.pc \in PruneCalls THEN Fails ELSE {FALSE}),
          evUp \in (IF sched.pb.pc = "PruneBlocks" THEN EvUps ELSE {0}) :
       \E r \in {pruneBlocks(sched.pb, ledger, fail, evUp)} :
        /\ ledger' = r.l
        /\ hist' = IF sched.pb.pc = "PruneBlocks"
                   THEN [hist EXCEPT !.maxPruned = Max(@, sched.pb.height),
                                     !.commanded = @ \cup {sched.pb.height}]
                   ELSE hist
        /\ sched' = IF r.p.pc = "done"
                    THEN [sched EXCEPT !.pb = r.p,
                                       !.lastHeightPruned =
                                           LastHeightPrunedAfter(sched.retainHeight, r.p.err),
                                       !.pc = AfterPruneBlocks(r.p.err)]
                    ELSE [sched EXCEPT !.pb = r.p]
    /\ UNCHANGED <<store, frames, last, accepted, quit>>

\* The read of the ABCI results watermark and the comparison with
\* lastABCIResPrunedHeight; the results of pruneBlocks are out of scope.
SchedGetABCI(ABCIFaults) ==
    /\ sched.pc = "GetABCI"
    /\ \E fault \in ABCIFaults :
         \E r \in {GetABCIResRetainHeight(store, fault)} :
            sched' = [sched EXCEPT !.ABCIResRetainHeight = r.val, !.pb = NoPrune,
                                   !.pc = IF /\ r.err = Nil
                                             /\ ShouldPruneABCI(sched.lastABCIResPrunedHeight, r.val)
                                          THEN "PruneABCI" ELSE "Sleep"]
    /\ UNCHANGED <<store, ledger, frames, last, accepted, quit, hist>>

\* PruneABCIResponses(ABCIResRetainHeight); its error is dropped.
SchedPruneABCI ==
    /\ sched.pc = "PruneABCI"
    /\ sched' = [sched EXCEPT !.pc = "Sleep",
                              !.lastABCIResPrunedHeight =
                                  LastABCIResPrunedHeightAfter(@, sched.ABCIResRetainHeight)]
    /\ hist' = [hist EXCEPT !.abciPruned = @ \cup {sched.ABCIResRetainHeight}]
    /\ UNCHANGED <<store, ledger, frames, last, accepted, quit>>

\* time.Sleep(p.interval), then the next iteration with fresh locals.
SchedSleep ==
    /\ sched.pc = "Sleep"
    /\ sched' = [sched EXCEPT !.pc = "Select", !.retainHeight = 0,
                              !.ABCIResRetainHeight = 0]
    /\ UNCHANGED <<store, ledger, frames, last, accepted, quit, hist>>

\* OnStop closes Quit.
Stop ==
    /\ ~quit
    /\ quit' = TRUE
    /\ UNCHANGED <<store, ledger, frames, last, accepted, sched, hist>>

\* A setter called while the routine runs, the whole call at once.
Set(op, height) ==
    \E r \in {Run(NewFrame(op, height, NoFault), store, ledger)} :
        /\ store' = r.s
        /\ accepted' = Accept(r.f)
        /\ hist' = HistAfterStore(hist, store, r.s)
        /\ UNCHANGED <<ledger, frames, last, sched, quit>>

AllFindFaults == Faults("FindMinRetainHeight")
AllEvUps == {0, 1}
AllABCIFaults == {NoFault, ABCIResultsRetainHeightKey}

\* A step of the routine.
SchedStep ==
    \/ SchedSelect(AllFindFaults)
    \/ SchedFind
    \/ SchedPrune(BOOLEAN, AllEvUps)
    \/ SchedGetABCI(AllABCIFaults)
    \/ SchedPruneABCI
    \/ SchedSleep

NextSched ==
    \/ SchedStep
    \/ Stop
    \/ \E op \in Ops \ {"FindMinRetainHeight"}, height \in 1..SchedHeight : Set(op, height)

\* The routine starts on a ledger of SchedHeight blocks and an empty store.
InitSched == Init /\ ledger = [base |-> 1, height |-> SchedHeight]

\* The routine runs in its own goroutine, which the Go scheduler does not
\* starve, and its store and ledger calls return.
SpecSched == InitSched /\ [][NextSched]_vars /\ WF_vars(SchedStep)

\* A step of the routine on a store and a ledger that do not fail.
SchedStepNoFault ==
    \/ SchedSelect({NoFault})
    \/ SchedFind
    \/ SchedPrune({FALSE}, {0})
    \/ SchedGetABCI({NoFault})
    \/ SchedPruneABCI
    \/ SchedSleep

\* The routine next to setter calls made one at a time, and one caller of
\* the application and companion setters whose steps interleave with the
\* routine's and with those calls.
NextSchedConc ==
    \/ SchedStepNoFault
    \/ \E op \in {"SetApplicationRetainHeight", "SetCompanionRetainHeight"},
          height \in 1..SchedHeight : Begin(1, op, height, NoFault)
    \/ Proceed(1)
    \/ \E op \in Ops \ {"FindMinRetainHeight"}, height \in 1..SchedHeight : Set(op, height)

SpecSchedConc == InitSched /\ [][NextSchedConc]_vars

----------------------------------------------------------------------------
\* Vocabulary of the properties.  In Spec, last is the call that has just
\* returned: last.pre and last.ledger are the store and ledger it ran in, and
\* store is the store it left.

IsSet(v) == v # NoValue

BlockSetters == {"SetApplicationRetainHeight", "SetCompanionRetainHeight"}
Setters == BlockSetters \cup {"SetABCIResRetainHeight"}

\* The key a setter writes, and the key of the other stakeholder.
OwnKey(op) ==
    CASE op = "SetApplicationRetainHeight" -> AppRetainHeightKey
      [] op = "SetCompanionRetainHeight" -> CompanionBlockRetainHeightKey
      [] op = "SetABCIResRetainHeight" -> ABCIResultsRetainHeightKey

OtherKey(op) ==
    CASE op = "SetApplicationRetainHeight" -> CompanionBlockRetainHeightKey
      [] op = "SetCompanionRetainHeight" -> AppRetainHeightKey

\* 0 < h and ledgerBase <= h <= ledgerHeight.
InBlockRange(h, l) == 0 < h /\ l.base <= h /\ h <= l.height

\* 0 < h <= ledgerHeight.
InABCIRange(h, l) == 0 < h /\ h <= l.height

InRange(op, h, l) ==
    IF op \in BlockSetters THEN InBlockRange(h, l) ELSE InABCIRange(h, l)

\* The call c wrote nothing: the store is as it found it.
WroteNothing(c) == c.writes = 0 /\ store = c.pre

\* The call c persisted its height as the watermark of its stakeholder, and
\* nothing else.
Persisted(c) == store = [c.pre EXCEPT ![OwnKey(c.op)] = c.height]

----------------------------------------------------------------------------
\* C1: a block setter given a height in range, on a store that does not
\* fail, is rejected with the regression error and writes nothing when its
\* own watermark is set and exceeds the height or the other stakeholder's
\* watermark is set and exceeds the height; otherwise it returns nil and the
\* height is persisted as its watermark.  (With application 2 and companion
\* unset, SetCompanionRetainHeight(1) is rejected and the companion watermark
\* stays unset.)
C1_RegressionRejectedElsePersisted ==
    (/\ last.op \in BlockSetters
     /\ last.fault = NoFault
     /\ InBlockRange(last.height, last.ledger))
    => LET own == last.pre[OwnKey(last.op)]
           other == last.pre[OtherKey(last.op)]
       IN  IF (IsSet(own) /\ own > last.height) \/ (IsSet(other) /\ other > last.height)
           THEN last.err = ErrLowerThanRequested /\ WroteNothing(last)
           ELSE last.err = Nil /\ Persisted(last)

\* The scenario of C1: the application watermark was accepted, the companion
\* then asks for a lower height, is rejected and stays unset.
C1_Witness ==
    /\ last.op = "SetCompanionRetainHeight"
    /\ last.ledger = [base |-> 1, height |-> MaxHeight]
    /\ last.pre[AppRetainHeightKey] = accepted
    /\ 0 < last.height /\ last.height < accepted
    /\ last.err = ErrLowerThanRequested
    /\ store[CompanionBlockRetainHeightKey] = NoValue

----------------------------------------------------------------------------
\* C2 as stated: with the other stakeholder's watermark set to H', a block
\* setter given H (in range, not below its own watermark) fails if H' < H
\* and succeeds if H' >= H.
C2_AsStated ==
    (/\ last.op \in BlockSetters
     /\ last.fault = NoFault
     /\ InBlockRange(last.height, last.ledger)
     /\ IsSet(last.pre[OtherKey(last.op)])
     /\ ~(IsSet(last.pre[OwnKey(last.op)]) /\ last.pre[OwnKey(last.op)] > last.height))
    => IF last.pre[OtherKey(last.op)] < last.height
       THEN last.err # Nil
       ELSE last.err = Nil

\* C2 amended: with the other stakeholder's watermark set to H', a block
\* setter given H (in range, not below its own watermark) fails with the
\* regression error if H' > H and succeeds if H' <= H.
C2_CrossStakeholderProtection ==
    (/\ last.op \in BlockSetters
     /\ last.fault = NoFault
     /\ InBlockRange(last.height, last.ledger)
     /\ IsSet(last.pre[OtherKey(last.op)])
     /\ ~(IsSet(last.pre[OwnKey(last.op)]) /\ last.pre[OwnKey(last.op)] > last.height))
    => IF last.pre[OtherKey(last.op)] > last.height
       THEN last.err = ErrLowerThanRequested
       ELSE last.err = Nil

\* The application asks for a height above the companion's watermark and is
\* accepted.
C2_Witness ==
    /\ last.op = "SetApplicationRetainHeight"
    /\ IsSet(last.pre[CompanionBlockRetainHeightKey])
    /\ last.pre[CompanionBlockRetainHeightKey] < last.height
    /\ last.err = Nil
    /\ store[AppRetainHeightKey] = last.height

----------------------------------------------------------------------------
\* C3: FindMinRetainHeight (no read failing) returns 0 when neither the
\* application nor the companion watermark is set, the one that is set when
\* exactly one is, and the minimum of the two when both are.
C3_MinOfSetWatermarks ==
    (last.op = "FindMinRetainHeight" /\ last.fault = NoFault)
    => LET app == last.pre[AppRetainHeightKey]
           dc == last.pre[CompanionBlockRetainHeightKey]
       IN  last.ret = IF ~IsSet(app) /\ ~IsSet(dc) THEN 0
                      ELSE IF ~IsSet(dc) THEN app
                      ELSE IF ~IsSet(app) THEN dc
                      ELSE IF app < dc THEN app ELSE dc

----------------------------------------------------------------------------
\* C4: when no call is in progress, the persisted application watermark is
\* the highest height a SetApplicationRetainHeight call has returned nil
\* for (concurrent setters behave as if each ran alone).
C4_WatermarkIsMaxAccepted ==
    ((\A c \in Callers : Idle(c)) /\ accepted > 0)
    => store[AppRetainHeightKey] = accepted

----------------------------------------------------------------------------
\* C5: in every step of every run, a watermark that is set stays set and
\* does not decrease, and a new application or companion watermark is not
\* below the other stakeholder's watermark as it stands at that time.
C5_WatermarksOnlyAdvance ==
    [][/\ \A k \in Keys : IsSet(store[k]) => (IsSet(store'[k]) /\ store'[k] >= store[k])
       /\ \A op \in BlockSetters :
            store'[OwnKey(op)] # store[OwnKey(op)]
            => \/ ~IsSet(store[OtherKey(op)])
               \/ store'[OwnKey(op)] >= store[OtherKey(op)]]_vars

----------------------------------------------------------------------------
\* Two calls of the same setter made one right after the other, the first on
\* an unset watermark, both with heights in range, on a store that does not
\* fail, and with the other stakeholder's watermark unset or not above
\* either height: last is the first call, last' the second.
TwoSetsInARow ==
    /\ last.op \in Setters
    /\ last'.op = last.op
    /\ last.fault = NoFault /\ last'.fault = NoFault
    /\ ~IsSet(last.pre[OwnKey(last.op)])
    /\ InRange(last.op, last.height, last.ledger)
    /\ InRange(last.op, last'.height, last'.ledger)
    /\ last.op \in BlockSetters
       => \/ ~IsSet(last.pre[OtherKey(last.op)])
          \/ /\ last.pre[OtherKey(last.op)] <= last.height
             /\ last.pre[OtherKey(last.op)] <= last'.height

\* C6 as stated: for H1 <= H2 (H1 = H2 included), setting H1 then H2
\* succeeds twice, and setting H2 then H1 fails the second time with the
\* regression error and leaves the watermark at H2.
C6_AsStated ==
    [][TwoSetsInARow =>
        /\ last.height <= last'.height => (last.err = Nil /\ last'.err = Nil)
        /\ last'.height <= last.height
           => /\ last.err = Nil
              /\ last'.err = ErrLowerThanRequested
              /\ store'[OwnKey(last.op)] = last.height]_vars

\* C6 amended: for H1 <= H2 (H1 = H2 included), setting H1 then H2 succeeds
\* twice; for H1 < H2, setting H2 then H1 fails the second time with the
\* regression error and leaves the watermark at H2.
C6_SetTwice ==
    [][TwoSetsInARow =>
        /\ last.height <= last'.height
           => /\ last.err = Nil /\ last'.err = Nil
              /\ store'[OwnKey(last.op)] = last'.height
        /\ last'.height < last.height
           => /\ last.err = Nil
              /\ last'.err = ErrLowerThanRequested
              /\ store'[OwnKey(last.op)] = last.height]_vars

\* The ABCI-results watermark was set, and a second call asking for less has
\* just been rejected.
C6_Witness ==
    /\ last.op = "SetABCIResRetainHeight"
    /\ last.fault = NoFault
    /\ last.err = ErrLowerThanRequested
    /\ last.height < last.pre[ABCIResultsRetainHeightKey]
    /\ store[ABCIResultsRetainHeightKey] = last.pre[ABCIResultsRetainHeightKey]

----------------------------------------------------------------------------
\* C7: a block setter returns the invalid-height error exactly when its
\* height is <= 0, below the ledger's base or above the ledger's height,
\* whatever the watermarks are and whether or not the store would fail; when
\* it does, it has read no watermark and written none.
C7_RangeValidation ==
    last.op \in BlockSetters
    => /\ last.err = ErrInvalidHeightValue <=> ~InBlockRange(last.height, last.ledger)
       /\ last.err = ErrInvalidHeightValue => (last.reads = 0 /\ WroteNothing(last))

\* A positive height below the ledger's base is refused although both
\* watermarks are set and would allow it.
C7_Witness ==
    /\ last.op = "SetCompanionRetainHeight"
    /\ 0 < last.height /\ last.height < last.ledger.base
    /\ IsSet(last.pre[AppRetainHeightKey]) /\ IsSet(last.pre[CompanionBlockRetainHeightKey])
    /\ last.err = ErrInvalidHeightValue
    /\ last.reads = 0

----------------------------------------------------------------------------
\* C8: SetABCIResRetainHeight returns the invalid-height error exactly when
\* its height is <= 0 or above the ledger's height (the base does not
\* matter); otherwise, on a store that does not fail, it persists the height
\* when no ABCI-results watermark exists, is rejected with the regression
\* error and writes nothing when the existing one exceeds the height, and
\* persists the height in the remaining case.  It never changes the
\* application or the companion watermark.
C8_ABCIResSetter ==
    last.op = "SetABCIResRetainHeight"
    => LET cur == last.pre[ABCIResultsRetainHeightKey]
       IN  /\ last.err = ErrInvalidHeightValue
                <=> (last.height <= 0 \/ last.height > last.ledger.height)
           /\ (last.fault = NoFault /\ last.err # ErrInvalidHeightValue)
              => IF IsSet(cur) /\ cur > last.height
                 THEN last.err = ErrLowerThanRequested /\ WroteNothing(last)
                 ELSE last.err = Nil /\ Persisted(last)
           /\ store[AppRetainHeightKey] = last.pre[AppRetainHeightKey]
           /\ store[CompanionBlockRetainHeightKey] = last.pre[CompanionBlockRetainHeightKey]

\* A height below the ledger's base and below both stakeholders' watermarks
\* is accepted as the first ABCI-results watermark.
C8_Witness ==
    /\ last.op = "SetABCIResRetainHeight"
    /\ 0 < last.height /\ last.height < last.ledger.base
    /\ last.pre[AppRetainHeightKey] > last.height
    /\ last.pre[CompanionBlockRetainHeightKey] > last.height
    /\ ~IsSet(last.pre[ABCIResultsRetainHeightKey])
    /\ last.err = Nil
    /\ store[ABCIResultsRetainHeightKey] = last.height

----------------------------------------------------------------------------
\* C9: when the read of the application or of the companion watermark fails
\* with a store error, FindMinRetainHeight returns 0 whatever the other
\* watermark is; a setter whose height is in range and whose read of a
\* watermark fails returns the store's error and writes nothing.
C9_ReadFailure ==
    /\ (last.op = "FindMinRetainHeight" /\ last.fault # NoFault) => last.ret = 0
    /\ (/\ last.op \in Setters
        /\ last.fault \in Keys
        /\ InRange(last.op, last.height, last.ledger))
       => (last.err = ErrStoreIO /\ WroteNothing(last))

\* The companion read failed while the application watermark was set.
C9_Witness ==
    /\ last.op = "FindMinRetainHeight"
    /\ last.fault = CompanionBlockRetainHeightKey
    /\ IsSet(last.pre[AppRetainHeightKey])
    /\ IsSet(last.pre[CompanionBlockRetainHeightKey])
    /\ last.reads = 2
    /\ last.ret = 0

----------------------------------------------------------------------------
\* C10: a call of FindMinRetainHeight leaves the three watermarks and the
\* ledger as they were, and a second call made right after a first (no read
\* failing in either) returns the same value.
C10_FindMinWritesNothing ==
    [][last'.op = "FindMinRetainHeight" =>
        /\ store' = store
        /\ ledger' = ledger
        /\ last'.writes = 0
        /\ (last.op = "FindMinRetainHeight" /\ last.fault = NoFault /\ last'.fault = NoFault)
           => last'.ret = last.ret]_vars

\* FindMinRetainHeight read both watermarks, both set, and returned one.
C10_Witness ==
    /\ last.op = "FindMinRetainHeight"
    /\ last.fault = NoFault
    /\ last.reads = 2
    /\ IsSet(store[AppRetainHeightKey]) /\ IsSet(store[CompanionBlockRetainHeightKey])
    /\ last.ret > 0
    /\ store = last.pre

----------------------------------------------------------------------------
\* Vocabulary of the properties of the pruning routine.

\* pruneBlocks has just returned: sched.pb holds what it did and returned.
Returned == sched.pc = "GetABCI" /\ sched.pb.pc = "done"

\* The frame p made the call name.
Called(p, name) == \E i \in DOMAIN p.calls : p.calls[i].name = name

\* The names of the calls of the frame p, in order.
CallNames(p) == [i \in DOMAIN p.calls |-> p.calls[i].name]

\* The step taken is the call name of pruneBlocks.
PruneStep(name) == sched.pc = "Prune" /\ sched.pb.pc = name /\ sched'.pb.pc # name

\* The step taken is the call of PruneABCIResponses.
PruneABCIStep == sched.pc = "PruneABCI" /\ sched'.pc = "Sleep"

\* Nothing was commanded to the ledger or to the state store in the step.
NothingCommanded == ledger' = ledger /\ store' = store /\ hist' = hist

----------------------------------------------------------------------------
\* C11: the pruning routine stops only from its select, with Quit closed,
\* never out of a prune, failed or not; once stopped it makes no further
\* step and commands nothing; and once Quit is closed it stops.
C11_StopsOnlyOnQuit ==
    /\ [][(sched'.pc = "Stopped" /\ sched.pc # "Stopped")
          => (quit /\ sched.pc = "Select")]_vars
    /\ [][sched.pc = "Stopped"
          => /\ sched' = sched
             /\ ledger' = ledger
             /\ hist'.maxPruned = hist.maxPruned
             /\ hist'.commanded \subseteq hist.commanded
             /\ hist'.abciPruned \subseteq hist.abciPruned]_vars
    /\ (quit ~> sched.pc = "Stopped")

\* The routine has stopped after an iteration whose prune at height 2 left
\* the ledger's base where it was.
C11_Witness ==
    /\ sched.pc = "Stopped"
    /\ quit
    /\ sched.lastHeightPruned > 1
    /\ ledger.base = 1

----------------------------------------------------------------------------
\* C12: in pruneBlocks with height > 0 and the state loaded, PruneStates is
\* called after the ledger's PruneBlocks whether that failed or not, with
\* the base the ledger had before PruneBlocks was commanded, the height, and
\* the evidence retain height PruneBlocks returned.
C12_PruneStatesAfterPruneBlocks ==
    /\ [][PruneStep("PruneBlocks")
          => /\ sched'.pb.pc = "PruneStates"
             /\ sched.pb.base = ledger.base]_vars
    /\ [][PruneStep("PruneStates")
          => /\ Len(sched'.pb.calls) = Len(sched.pb.calls) + 1
             /\ sched'.pb.calls[Len(sched'.pb.calls)]
                    = CallOf("PruneStates", sched.pb.base, sched.pb.height,
                             sched.pb.evRetainHeight)]_vars
    /\ []((Returned /\ sched.pb.height > 0 /\ sched.pb.loadErr = Nil)
          => CallNames(sched.pb) = <<"Base", "Load", "PruneBlocks", "PruneStates">>)

\* pruneBlocks has returned: the ledger's PruneBlocks failed and PruneStates
\* was called with the base read before.
C12_Witness ==
    /\ Returned
    /\ sched.pb.blocksErr # Nil
    /\ sched.pb.calls[Len(sched.pb.calls)]
           = CallOf("PruneStates", ledger.base, sched.pb.height, 0)

----------------------------------------------------------------------------
\* C13 as stated: when pruneBlocks has made both prune calls, the error it
\* returns is nil exactly when both returned nil.
C13_AsStated ==
    (Returned /\ Called(sched.pb, "PruneStates"))
    => (sched.pb.err = Nil <=> (sched.pb.blocksErr = Nil /\ sched.pb.statesErr = Nil))

----------------------------------------------------------------------------
\* C14: the cursor lastHeightPruned starts at 0; when FindMinRetainHeight
\* has returned, pruneBlocks is invoked, with the height returned, if and
\* only if that height differs from the cursor; when pruneBlocks returns,
\* failed or not, the cursor is that height.
C14_PruneIffHeightDiffers ==
    /\ sched.lastHeightPruned = 0
    /\ [][(sched.pc = "Find" /\ sched'.pc # "Find")
          => IF sched'.retainHeight # sched.lastHeightPruned
             THEN sched'.pc = "Prune" /\ sched'.pb = NewPrune(sched'.retainHeight)
             ELSE sched'.pc = "GetABCI" /\ sched'.pb = NoPrune]_vars
    /\ [][(sched.pc = "Prune" /\ sched'.pc # "Prune")
          => /\ sched'.pb.pc = "done"
             /\ sched'.lastHeightPruned = sched.pb.height]_vars
    /\ [][sched'.lastHeightPruned # sched.lastHeightPruned => sched.pc = "Prune"]_vars

\* pruneBlocks has failed at a height above 0, and the cursor is that height.
C14_Witness ==
    /\ Returned
    /\ sched.pb.height > 0
    /\ sched.pb.err # Nil
    /\ sched.lastHeightPruned = sched.pb.height

----------------------------------------------------------------------------
\* C15 as stated: when PruneABCIResponses has been called with the watermark
\* V, the cursor lastABCIResPrunedHeight is V, and PruneABCIResponses(V) is
\* not called again while the ABCI results watermark stays V.
C15_AsStated ==
    [][PruneABCIStep
       => /\ sched'.lastABCIResPrunedHeight = sched.ABCIResRetainHeight
          /\ sched.ABCIResRetainHeight \notin hist.abciPruned]_vars

----------------------------------------------------------------------------
\* C16: pruneBlocks with a height of 0 or less returns the retain-height
\* error without any call on the ledger or the state store, so the step of
\* the routine that runs it leaves ledger and store as they are and commands
\* nothing.
C16_NoAccessAtOrBelowZero ==
    /\ [](\A height \in (0 - 1)..0 :
             pruneBlocks(NewPrune(height), ledger, FALSE, 0)
                 = [p |-> [NewPrune(height) EXCEPT !.pc = "done", !.err = ErrRetainHeight],
                    l |-> ledger])
    /\ []((Returned /\ sched.pb.height <= 0)
          => (sched.pb.err = ErrRetainHeight /\ sched.pb.calls = <<>>))
    /\ [][(sched.pc = "Prune" /\ sched.pb.height <= 0 /\ sched' # sched)
          => NothingCommanded]_vars

\* After an earlier prune moved the ledger's base, FindMinRetainHeight
\* returned 0 and pruneBlocks(0) has returned its error.
C16_Witness ==
    /\ Returned
    /\ sched.pb.height = 0
    /\ sched.pb.err = ErrRetainHeight
    /\ ledger.base > 1

----------------------------------------------------------------------------
\* C17: when Load fails in pruneBlocks with height > 0, pruneBlocks returns
\* that error at once: the ledger's PruneBlocks and PruneStates are not
\* called, and the step leaves ledger and store as they are.
C17_LoadFailureAborts ==
    /\ []((Returned /\ sched.pb.height > 0 /\ sched.pb.loadErr # Nil)
          => /\ sched.pb.err = sched.pb.loadErr
             /\ CallNames(sched.pb) = <<"Base", "Load">>)
    /\ []((sched.pc = "Prune" /\ sched.pb.loadErr # Nil) => sched.pb.pc = "done")
    /\ [][(PruneStep("Load") /\ sched'.pb.loadErr # Nil) => NothingCommanded]_vars

\* Load has failed in pruneBlocks(2) and pruneBlocks has returned its error.
C17_Witness ==
    /\ Returned
    /\ sched.pb.height = SchedHeight
    /\ sched.pb.loadErr = ErrLoad
    /\ sched.pb.err = ErrLoad
    /\ ledger.base = 1

----------------------------------------------------------------------------
\* C18 as stated: the highest height the routine has given to the ledger's
\* PruneBlocks is never above an application or companion watermark that is
\* set.
C18_AsStated ==
    \A k \in {AppRetainHeightKey, CompanionBlockRetainHeightKey} :
        IsSet(store[k]) => hist.maxPruned <= store[k]

----------------------------------------------------------------------------
\* What FindMinRetainHeight returns on the store s when no read fails.
EffectiveRetainHeight(s) ==
    Run(NewFrame("FindMinRetainHeight", 0, NoFault), s, ledger).f.ret

\* C19: no call, each run to completion, changes the store so that
\* FindMinRetainHeight returns less than before.
C19_EffectiveHeightNeverDecreases ==
    [][store' # store
       => EffectiveRetainHeight(store') >= EffectiveRetainHeight(store)]_vars

\* A setter has just set the second of the two watermarks, and
\* FindMinRetainHeight returns more than before the call.
C19_Witness ==
    /\ last.op \in BlockSetters
    /\ last.err = Nil
    /\ ~IsSet(last.pre[OwnKey(last.op)])
    /\ IsSet(last.pre[OtherKey(last.op)])
    /\ EffectiveRetainHeight(store) > EffectiveRetainHeight(last.pre)

----------------------------------------------------------------------------
\* C20 as stated: the routine never gives the ledger's PruneBlocks a height
\* it has already given it since the application or companion watermark last
\* changed.
C20_AsStated ==
    [][PruneStep("PruneBlocks") => sched.pb.height \notin hist.commanded]_vars

====
